---- MODULE Spec2Model ----
(***************************************************************************)
(* Rule engine of the SupportOps automator: webhook routes, rule matching, *)
(* per-rule rate limiting, action dispatch and execution tracking.         *)
(*                                                                         *)
(* A worker is one server process: it owns one RuleEngine instance (and    *)
(* its execution_cache) and handles one webhook request at a time, because *)
(* the webhook routes are coroutines that call the synchronous             *)
(* process_trigger.  All workers, and the rule CRUD routes (plain def      *)
(* routes, run in the thread pool), share the database.                    *)
(*                                                                         *)
(* Time is counted in ticks of 30 minutes.                                 *)
(***************************************************************************)
EXTENDS Integers, Sequences, FiniteSets, TLC

VARIABLES
    now,              \* datetime.utcnow(), in ticks
    rules,            \* the rules table: rule id -> row
    pc,               \* per worker: position inside process_trigger
    req,              \* per worker: the request being (or last) handled
    resp,             \* per worker: HTTP status of the last response, 0 while none
    invoked,          \* per worker: process_trigger was called for req
    session,          \* per worker: ORM identity map [row, expired]
    matching_rules,   \* per worker: list returned by _find_matching_rules
    rule_idx,         \* per worker: position of the for loop of process_trigger
    execution,        \* per worker: locals of _execute_rule
    execution_ids,    \* per worker: list built by process_trigger
    execution_cache,  \* per worker: RuleEngine.execution_cache (its keys)
    executions,       \* per worker: the RuleExecution object it created last
    next_id,          \* the next fresh execution id (uuid4)
    completed_at,     \* per rule: completion times of the trailing hour
    matched,          \* per rule: events whose conditions matched the rule
    skipped,          \* per rule: events rejected by the rate limiter
    n_events,         \* number of webhook requests received
    integrations,     \* the integrations table of the rules' owner, by platform
    query_failed,     \* per worker: the matcher's query raised for req
    call,             \* the last call of a function that writes nothing
    crud              \* rule CRUD requests between their SELECT and their UPDATE

vars == << now, rules, pc, req, resp, invoked, session, matching_rules, rule_idx,
           execution, execution_ids, execution_cache, executions, next_id,
           completed_at, matched, skipped, n_events, integrations, query_failed, call, crud >>

(***************************************************************************)
(* Bounds of the model                                                     *)
(***************************************************************************)
MaxTime == 3
MaxEvents == 3
MaxCrudEvents == 3
MaxOwnerEvents == 1
MaxCrudInFlight == 2

Workers == {"w1", "w2"}
RuleIds == {1, 2}
MaxPerHourChoices == {1, 2}

(***************************************************************************)
(* Program constants                                                       *)
(***************************************************************************)
\* timedelta(hours=1), in ticks
Hour == 2
\* last_executed_at: Optional[datetime] = None
NoneTime == -1

\* seconds in a tick
TickSeconds == 3600 \div Hour
\* execution_timeout_seconds: int = Field(default=300)
DefaultExecutionTimeoutSeconds == 300

RuleStatus == {"active", "inactive", "draft", "archived"}

HTTP_200 == 200
HTTP_400 == 400
HTTP_401 == 401
HTTP_500 == 500

(***************************************************************************)
(* Helpers                                                                 *)
(***************************************************************************)
Min(a, b) == IF a < b THEN a ELSE b

RECURSIVE SeqOfSet(_)
\* a set of rule ids as a list in id order (the order of the query result)
SeqOfSet(S) ==
    IF S = {} THEN << >>
    ELSE LET m == CHOOSE x \in S : \A y \in S : x <= y
         IN << m >> \o SeqOfSet(S \ {m})

(***************************************************************************)
(* Python values: JSON scalars and dicts, with the comparisons the          *)
(* evaluator applies to them.  A value is a record of its type and content. *)
(***************************************************************************)
py_int(n) == [type |-> "int", n |-> n, s |-> "", d |-> << >>]
py_str(s) == [type |-> "str", n |-> 0, s |-> s, d |-> << >>]
\* bool is a subclass of int: True is 1 and False is 0
py_bool(b) == [type |-> "bool", n |-> IF b THEN 1 ELSE 0, s |-> "", d |-> << >>]
py_dict(d) == [type |-> "dict", n |-> 0, s |-> "", d |-> d]
None == [type |-> "NoneType", n |-> 0, s |-> "", d |-> << >>]

\* isinstance(value, (int, float))
is_number(value) == value.type \in {"int", "bool"}

\* key in d
dict_has(d, key) == key \in DOMAIN d.d

\* d.get(key, default)
dict_get(d, key, default) == IF dict_has(d, key) THEN d.d[key] ELSE default

\* not value, for the values a condition map can be
is_falsy(value) ==
    \/ value.type = "NoneType"
    \/ value.type = "dict" /\ DOMAIN value.d = {}

\* a == b
py_eq(a, b) ==
    CASE is_number(a) /\ is_number(b) -> a.n = b.n
      [] a.type = "str" /\ b.type = "str" -> a.s = b.s
      [] a.type = "NoneType" /\ b.type = "NoneType" -> TRUE
      [] a.type = "dict" /\ b.type = "dict" ->
            /\ DOMAIN a.d = DOMAIN b.d
            /\ \A key \in DOMAIN a.d : a.d[key] = b.d[key]
      [] OTHER -> FALSE

\* the decimal digits of the integers the model uses
digits(n) ==
    CASE n = 0 -> "0" [] n = 1 -> "1" [] n = 2 -> "2" [] n = 3 -> "3" [] n = 4 -> "4"

\* str(value)
py_str_of(value) ==
    CASE value.type = "str" -> value.s
      [] value.type = "int" -> digits(value.n)
      [] value.type = "bool" -> IF value.n = 1 THEN "True" ELSE "False"
      [] value.type = "NoneType" -> "None"

\* the characters of the strings the model uses
chars(s) ==
    CASE s = "" -> << >>
      [] s = "high" -> << "h", "i", "g", "h" >>
      [] s = "hi" -> << "h", "i" >>
      [] s = "gh" -> << "g", "h" >>
      [] s = "low" -> << "l", "o", "w" >>
      [] s = "0" -> << "0" >>
      [] s = "1" -> << "1" >>
      [] s = "2" -> << "2" >>
      [] s = "3" -> << "3" >>
      [] s = "4" -> << "4" >>
      [] s = "True" -> << "T", "r", "u", "e" >>
      [] s = "False" -> << "F", "a", "l", "s", "e" >>
      [] s = "None" -> << "N", "o", "n", "e" >>

\* a in b, for strings
str_contains(b, a) ==
    LET x == chars(a)
        y == chars(b)
    IN  \E i \in 0..(Len(y) - Len(x)) : SubSeq(y, i + 1, i + Len(x)) = x

\* b.startswith(a)
str_startswith(b, a) ==
    LET x == chars(a)
        y == chars(b)
    IN  Len(x) <= Len(y) /\ SubSeq(y, 1, Len(x)) = x

\* b.endswith(a)
str_endswith(b, a) ==
    LET x == chars(a)
        y == chars(b)
    IN  Len(x) <= Len(y) /\ SubSeq(y, Len(y) - Len(x) + 1, Len(y)) = x

(***************************************************************************)
(* Webhook bodies, signatures                                              *)
(***************************************************************************)
\* a body is a list of tokens: << native event name, shape, priority >>;
\* any other list is not JSON
Bodies ==
    { << "ticket.created", "flat", "high" >>,
      << "ticket.created", "flat", "low" >>,
      << "ticket.created", "nested", "high" >>,
      << "ticket.archived", "flat", "high" >>,
      << "{" >> }

\* json.loads raises JSONDecodeError on the other bodies
is_json(body) == Len(body) = 3

json_loads(body) ==
    IF body[2] = "flat"
    THEN py_dict([type |-> py_str(body[1]), event_type |-> py_str(body[1]),
                  priority |-> py_str(body[3])])
    ELSE py_dict([type |-> py_str(body[1]), event_type |-> py_str(body[1]),
                  ticket |-> py_dict([priority |-> py_str(body[3])])])

Secrets == {"s_configured", "s_other"}
Timestamps == { << "t1" >> }

\* hex(HMAC-SHA256(key, message)): an unforgeable tag, equal only for equal
\* key and message
hmac_hexdigest(key, message) == << key >> \o message

\* a header that did not come (None)
NoHeader == << >>

\* settings.zendesk_webhook_secret / settings.freshdesk_webhook_secret
webhook_secret == "s_configured"

Platforms == {"zendesk", "freshdesk"}

\* the message the platform's scheme signs
signed_message(platform, body, timestamp) ==
    IF platform = "zendesk" /\ timestamp # NoHeader THEN timestamp \o body ELSE body

\* signature headers tried with a body: none, the scheme's tag under either
\* secret, and the configured secret's tag of another body
SignatureChoices(platform, body, timestamp) ==
    {NoHeader}
    \cup { hmac_hexdigest(k, signed_message(platform, body, timestamp)) : k \in Secrets }
    \cup { hmac_hexdigest(webhook_secret, signed_message(platform, b, timestamp)) :
             b \in Bodies }

\* every request the model sends
Requests ==
    UNION { { [platform |-> p, body |-> b, timestamp |-> t, signature |-> s] :
                s \in SignatureChoices(p, b, t) } :
            p \in Platforms, b \in Bodies, t \in Timestamps \cup {NoHeader} }

\* the signature the platform itself would send for this body
platform_signature(platform, body, timestamp) ==
    hmac_hexdigest(webhook_secret, signed_message(platform, body, timestamp))

\* requests as the platform sends them: all headers present, signature right
SignedRequests ==
    { r \in Requests :
        /\ r.timestamp # NoHeader
        /\ r.signature = platform_signature(r.platform, r.body, r.timestamp) }

\* the platform's requests the engine specifications send
EngineRequests ==
    { r \in SignedRequests :
        /\ r.platform = "zendesk"
        /\ r.body \in { << "ticket.created", "flat", "high" >>,
                        << "ticket.created", "flat", "low" >>,
                        << "ticket.archived", "flat", "high" >> } }

NoRequest == [platform |-> "none", body |-> << >>, timestamp |-> NoHeader,
              signature |-> NoHeader]

(***************************************************************************)
(* Rules table                                                             *)
(***************************************************************************)
\* a row as create_rule and enable_rule leave it: active, no statistics
new_rule(id) ==
    [ status |-> "active",
      is_enabled |-> TRUE,
      deleted |-> FALSE,
      trigger_platform |-> "zendesk",
      trigger_event |-> "ticket_created",
      trigger_conditions |-> IF id = 1
                             THEN py_dict(<< >>)
                             ELSE py_dict([priority |-> py_str("high")]),
      actions |-> IF id = 1 THEN << "a1", "a2" >> ELSE << "a3" >>,
      max_executions_per_hour |-> IF id = 1 THEN 2 ELSE 1,
      execution_timeout_seconds |-> DefaultExecutionTimeoutSeconds,
      execution_count |-> 0,
      last_executed_at |-> NoneTime,
      last_execution_status |-> "None" ]

\* a query that does not look at deleted_at
query_matches_with_deleted(rule, platform, event) ==
    /\ rule.trigger_platform = platform
    /\ rule.trigger_event = event
    /\ rule.status = "active"
    /\ rule.is_enabled = TRUE

\* WHERE clause of the matcher's query
query_matches(rule, platform, event) ==
    /\ rule.trigger_platform = platform
    /\ rule.trigger_event = event
    /\ rule.status = "active"
    /\ rule.is_enabled = TRUE
    /\ rule.deleted = FALSE

\* a comparison that knows the operator equals alone and rejects every other
compare_known_operators(actual_value, expected_value) ==
    IF expected_value.type = "dict"
    THEN LET operator == dict_get(expected_value, "operator", py_str("equals"))
             value == dict_get(expected_value, "value", None)
         IN  IF py_eq(operator, py_str("equals")) /\ py_eq(actual_value, value)
             THEN "ok"
             ELSE "False"
    ELSE IF py_eq(actual_value, expected_value) THEN "ok" ELSE "False"

\* lines 131-156, the check of one entry of the condition map: "ok" when the
\* loop goes on to the next entry, "False" when the function returns False,
\* "TypeError" when the comparison raises
compare(actual_value, expected_value) ==
    IF expected_value.type = "dict"
    THEN LET operator == dict_get(expected_value, "operator", py_str("equals"))
             value == dict_get(expected_value, "value", None)
         IN  CASE py_eq(operator, py_str("equals")) ->
                    IF py_eq(actual_value, value) THEN "ok" ELSE "False"
               [] py_eq(operator, py_str("contains")) ->
                    \* value not in str(actual_value)
                    IF value.type # "str"
                    THEN "TypeError"
                    ELSE IF str_contains(py_str_of(actual_value), value.s)
                         THEN "ok" ELSE "False"
               [] py_eq(operator, py_str("starts_with")) ->
                    IF str_startswith(py_str_of(actual_value), py_str_of(value))
                    THEN "ok" ELSE "False"
               [] py_eq(operator, py_str("ends_with")) ->
                    IF str_endswith(py_str_of(actual_value), py_str_of(value))
                    THEN "ok" ELSE "False"
               [] py_eq(operator, py_str("greater_than")) ->
                    \* isinstance(actual_value, (int, float)) and actual_value > value
                    IF ~ is_number(actual_value)
                    THEN "False"
                    ELSE IF ~ is_number(value)
                         THEN "TypeError"
                         ELSE IF actual_value.n > value.n THEN "ok" ELSE "False"
               [] py_eq(operator, py_str("less_than")) ->
                    IF ~ is_number(actual_value)
                    THEN "False"
                    ELSE IF ~ is_number(value)
                         THEN "TypeError"
                         ELSE IF actual_value.n < value.n THEN "ok" ELSE "False"
               [] OTHER -> "ok"
    ELSE IF py_eq(actual_value, expected_value) THEN "ok" ELSE "False"

RECURSIVE conditions_loop(_, _, _)
\* the for loop over conditions.items() (lines 124-158), keys being the keys
\* not visited yet
conditions_loop(keys, conditions, payload) ==
    IF keys = {}
    THEN "True"
    ELSE LET key == CHOOSE k \in keys : TRUE
         IN  IF ~ dict_has(payload, key)
             THEN "False"
             ELSE LET checked == compare(payload.d[key], conditions.d[key])
                  IN  IF checked = "ok"
                      THEN conditions_loop(keys \ {key}, conditions, payload)
                      ELSE checked

\* the try block of _evaluate_conditions (lines 118-158)
_evaluate_conditions_try(rule, payload) ==
    LET conditions == rule.trigger_conditions
    IN  IF is_falsy(conditions)
        THEN "True"
        ELSE conditions_loop(DOMAIN conditions.d, conditions, payload)

\* the function without its except clause: what the try block raises leaves it
_evaluate_conditions_uncaught(rule, payload) ==
    _evaluate_conditions_try(rule, payload)

\* what _evaluate_conditions returns or raises: except Exception (lines
\* 160-162) turns every exception into False
_evaluate_conditions_returns(rule, payload) ==
    LET tried == _evaluate_conditions_try(rule, payload)
    IN  IF tried \in {"True", "False"} THEN tried ELSE "False"

_evaluate_conditions(rule, payload) ==
    _evaluate_conditions_returns(rule, payload) = "True"

\* the ceiling compared with > where the code has >=
_check_rate_limit_off_by_one(rule, t) ==
    LET one_hour_ago == t - Hour
    IN  IF rule.last_executed_at # NoneTime /\ rule.last_executed_at > one_hour_ago
        THEN ~ (rule.execution_count > rule.max_executions_per_hour)
        ELSE TRUE

_check_rate_limit(rule, t) ==
    LET one_hour_ago == t - Hour
    IN  IF rule.last_executed_at # NoneTime /\ rule.last_executed_at > one_hour_ago
        THEN ~ (rule.execution_count >= rule.max_executions_per_hour)
        ELSE TRUE

\* rules of the query result whose conditions match the payload
condition_matched(platform, event, payload) ==
    { r \in DOMAIN rules : /\ query_matches(rules[r], platform, event)
                      /\ _evaluate_conditions(rules[r], payload) }

\* the matcher without its rate-limit check
_find_matching_rules_unlimited(platform, event, payload) ==
    SeqOfSet(condition_matched(platform, event, payload))

\* the rows the matcher's query returns, in id order
query_result(platform, event) ==
    SeqOfSet({ r \in DOMAIN rules : query_matches(rules[r], platform, event) })

RECURSIVE matching_loop_stops(_, _, _)
\* a loop that returns at the first rule that fails a check
matching_loop_stops(candidates, payload, matching) ==
    IF candidates = << >>
    THEN matching
    ELSE LET r == Head(candidates)
         IN  IF _evaluate_conditions(rules[r], payload) /\ _check_rate_limit(rules[r], now)
             THEN matching_loop_stops(Tail(candidates), payload, Append(matching, r))
             ELSE matching

RECURSIVE matching_loop(_, _, _)
\* the for loop of lines 96-105: a rule is appended when its conditions match
\* and its rate limit allows it, and the loop goes on in either case
matching_loop(candidates, payload, matching) ==
    IF candidates = << >>
    THEN matching
    ELSE LET r == Head(candidates)
         IN  IF _evaluate_conditions(rules[r], payload) /\ _check_rate_limit(rules[r], now)
             THEN matching_loop(Tail(candidates), payload, Append(matching, r))
             ELSE matching_loop(Tail(candidates), payload, matching)

_find_matching_rules(platform, event, payload) ==
    matching_loop(query_result(platform, event), payload, << >>)

zendesk_event_mapping(event_type) ==
    CASE event_type = "ticket.created" -> "ticket_created"
      [] event_type = "ticket.updated" -> "ticket_updated"
      [] event_type = "ticket.status_changed" -> "status_changed"
      [] event_type = "ticket.priority_changed" -> "priority_changed"
      [] event_type = "ticket.assignee_changed" -> "assignee_changed"
      [] event_type = "ticket.tag_added" -> "tag_added"
      [] event_type = "ticket.tag_removed" -> "tag_removed"
      [] OTHER -> event_type

freshdesk_event_mapping(event_type) ==
    CASE event_type = "ticket_create" -> "ticket_created"
      [] event_type = "ticket_update" -> "ticket_updated"
      [] event_type = "ticket_status_change" -> "status_changed"
      [] event_type = "ticket_priority_change" -> "priority_changed"
      [] event_type = "ticket_agent_change" -> "assignee_changed"
      [] event_type = "ticket_tag_add" -> "tag_added"
      [] event_type = "ticket_tag_remove" -> "tag_removed"
      [] OTHER -> event_type

(***************************************************************************)
(* Initial state: two rules created and enabled, every engine idle         *)
(***************************************************************************)
NoSession == [row |-> << >>, expired |-> {}]
NoExecution == [rule_id |-> 0, actions |-> << >>, act_idx |-> 0,
                actions_executed |-> << >>, count_read |-> 0, start_time |-> 0]
NoObject == [id |-> 0, rule_id |-> 0, status |-> "None", actions_executed |-> << >>,
             rule_actions |-> << >>, attempted |-> << >>, started_executable |-> TRUE,
             executor_calls |-> << >>, left_by |-> "None"]

\* no call made
NoCall == [op |-> "None", rule |-> new_rule(1), payload |-> py_dict(<< >>),
           result |-> "None"]

\* the platforms the rules' actions address
IntegrationPlatforms == {"slack", "trello"}

\* an integration as set up and activated: no statistics
new_integration(platform) ==
    [status |-> "active", deleted |-> FALSE, total_actions_executed |-> 0]

\* action.get("platform")
action_platform(action) == IF action = "a2" THEN "trello" ELSE "slack"

\* the database and the engines after start-up
engine_init ==
    /\ now = 0
    /\ rules = [r \in RuleIds |-> new_rule(r)]
    /\ pc = [w \in Workers |-> "idle"]
    /\ req = [w \in Workers |-> NoRequest]
    /\ resp = [w \in Workers |-> 0]
    /\ invoked = [w \in Workers |-> FALSE]
    /\ session = [w \in Workers |-> NoSession]
    /\ matching_rules = [w \in Workers |-> << >>]
    /\ rule_idx = [w \in Workers |-> 0]
    /\ execution = [w \in Workers |-> NoExecution]
    /\ execution_ids = [w \in Workers |-> << >>]
    /\ execution_cache = [w \in Workers |-> {}]
    /\ executions = [w \in Workers |-> NoObject]
    /\ next_id = 1
    /\ completed_at = [r \in RuleIds |-> << >>]
    /\ matched = [r \in RuleIds |-> 0]
    /\ skipped = [r \in RuleIds |-> 0]
    /\ n_events = 0
    /\ integrations = [p \in IntegrationPlatforms |-> new_integration(p)]
    /\ query_failed = [w \in Workers |-> FALSE]
    /\ crud = {}

Init ==
    /\ engine_init
    /\ call = NoCall

(***************************************************************************)
(* Calls of _evaluate_conditions on condition maps and payloads of every    *)
(* kind                                                                    *)
(***************************************************************************)
\* the operators a condition names; the engine has no branch for the last two
Operators == {"equals", "contains", "starts_with", "ends_with", "greater_than",
              "less_than", "not_equals", "regex"}

\* the values conditions hold
ConditionValues == {py_int(2), py_int(3), py_str("high"), py_str("hi"), None}

\* the values event fields hold
FieldValues == {py_int(2), py_int(3), py_str("high"), py_str("low"),
                py_bool(TRUE), None}

\* what a condition map holds for a key: a literal, or a dict of operator and
\* value, either of which can be missing
ExpectedValues ==
    ConditionValues
    \cup { py_dict([operator |-> py_str(o), value |-> v]) :
             o \in Operators, v \in ConditionValues }
    \cup { py_dict([value |-> v]) : v \in ConditionValues }
    \cup { py_dict([operator |-> py_str(o)]) : o \in Operators }

\* the conditions on the second field
SubjectConditions ==
    { py_str("hi"), py_dict([operator |-> py_str("contains"), value |-> py_str("hi")]) }

ConditionMaps ==
    {None, py_dict(<< >>)}
    \cup { py_dict([priority |-> e]) : e \in ExpectedValues }
    \cup { py_dict([priority |-> e, subject |-> c]) :
             e \in ExpectedValues, c \in SubjectConditions }

Payloads ==
    {py_dict(<< >>)}
    \cup { py_dict([priority |-> v]) : v \in FieldValues }
    \cup { py_dict([subject |-> v]) : v \in {py_str("hi"), py_str("high")} }
    \cup { py_dict([priority |-> v, subject |-> u]) :
             v \in FieldValues, u \in {py_str("hi"), py_str("high")} }

EvaluatorCalls ==
    { [op |-> "_evaluate_conditions",
       rule |-> [new_rule(1) EXCEPT !.trigger_conditions = c],
       payload |-> p,
       result |-> "pending"] : c \in ConditionMaps, p \in Payloads }

EvalInit ==
    /\ engine_init
    /\ call \in EvaluatorCalls

\* the matcher's call self._evaluate_conditions(rule, payload) (line 98)
evaluate_conditions_call ==
    /\ call.op = "_evaluate_conditions"
    /\ call.result = "pending"
    /\ call' = [call EXCEPT !.result = _evaluate_conditions_returns(call.rule, call.payload)]
    /\ UNCHANGED << now, rules, pc, req, resp, invoked, session, matching_rules,
                    rule_idx, execution, execution_ids, execution_cache, executions,
                    next_id, completed_at, matched, skipped, n_events, integrations,
                    query_failed, crud >>

(***************************************************************************)
(* ORM session: a row read once stays as read until a commit expires it;   *)
(* the next attribute access then reloads it from the table.               *)
(***************************************************************************)
\* the attributes _execute_rule reads from the Rule object after the query
attributes(rule) ==
    [actions |-> rule.actions, execution_count |-> rule.execution_count]

loaded(w, r) ==
    IF r \in session[w].expired THEN attributes(rules[r]) ELSE session[w].row[r]

after_access(w, r) ==
    [row |-> [session[w].row EXCEPT ![r] = loaded(w, r)],
     expired |-> session[w].expired \ {r}]

after_commit(sess) == [sess EXCEPT !.expired = DOMAIN sess.row]

(***************************************************************************)
(* Webhook routes                                                          *)
(***************************************************************************)
\* Depends(verify_signature): raises 401 when no signature header came, else
\* returns the body (raised = 0)
verify_signature(request) ==
    IF request.signature = NoHeader
    THEN [raised |-> HTTP_401, body |-> request.body]
    ELSE [raised |-> 0, body |-> request.body]

\* a route that gets the list and answers with it
response_with_execution_ids(ids) == HTTP_200

\* the route awaits the list process_trigger returned: TypeError, caught by
\* the route's except Exception
response_after_process_trigger(ids) == HTTP_500

\* return from the route with a status; the engine was not entered
respond(w, request, code) ==
    /\ req' = [req EXCEPT ![w] = request]
    /\ resp' = [resp EXCEPT ![w] = code]
    /\ invoked' = [invoked EXCEPT ![w] = FALSE]
    /\ query_failed' = [query_failed EXCEPT ![w] = FALSE]
    /\ UNCHANGED << pc, session, matching_rules, rule_idx, execution, execution_ids,
                    matched, skipped >>

\* process_trigger from the return of _find_matching_rules to the start of
\* its for loop; raised: the matcher caught an exception and returned []
after_find_matching_rules(w, request, cond, found, raised) ==
    LET allowed == { found[i] : i \in DOMAIN found }
    IN  /\ req' = [req EXCEPT ![w] = request]
        /\ invoked' = [invoked EXCEPT ![w] = TRUE]
        /\ query_failed' = [query_failed EXCEPT ![w] = raised]
        /\ matched' = [r \in DOMAIN rules |-> matched[r] + IF r \in cond THEN 1 ELSE 0]
        /\ skipped' = [r \in DOMAIN rules |->
                          skipped[r] + IF r \in cond \ allowed THEN 1 ELSE 0]
        /\ execution_ids' = [execution_ids EXCEPT ![w] = << >>]
        /\ IF found = << >>
           THEN /\ resp' = [resp EXCEPT ![w] = response_after_process_trigger(<< >>)]
                /\ UNCHANGED << pc, session, matching_rules, rule_idx, execution >>
           ELSE /\ resp' = [resp EXCEPT ![w] = 0]
                /\ pc' = [pc EXCEPT ![w] = "execute"]
                /\ session' = [session EXCEPT ![w] =
                                  [row |-> [r \in allowed |-> attributes(rules[r])],
                                   expired |-> {}]]
                /\ matching_rules' = [matching_rules EXCEPT ![w] = found]
                /\ rule_idx' = [rule_idx EXCEPT ![w] = 1]
                /\ UNCHANGED execution

\* process_trigger up to the start of its for loop
process_trigger(w, request, platform, event, payload) ==
    after_find_matching_rules(w, request,
        condition_matched(platform, event, payload),
        _find_matching_rules(platform, event, payload), FALSE)

\* process_trigger when the query of _find_matching_rules raises: the matcher
\* logs the error and returns [] (lines 107-109)
process_trigger_query_error(w, request) ==
    after_find_matching_rules(w, request, {}, << >>, TRUE)

\* the payload key a route reads the native event name from
event_type_key(platform) == IF platform = "zendesk" THEN "type" ELSE "event_type"

\* a normalizer that passes on only the names of its table
internal_event_mapped_only(platform, event_type) ==
    LET mapped == IF platform = "zendesk"
                  THEN zendesk_event_mapping(event_type)
                  ELSE freshdesk_event_mapping(event_type)
    IN  IF mapped = event_type THEN "unknown" ELSE mapped

\* event_mapping.get(event_type, event_type) of the platform's route
internal_event(platform, event_type) ==
    IF platform = "zendesk"
    THEN zendesk_event_mapping(event_type)
    ELSE freshdesk_event_mapping(event_type)

\* the body shared by zendesk_webhook and freshdesk_webhook
webhook_route(w, request, platform) ==
    /\ pc[w] = "idle"
    /\ n_events < MaxEvents
    /\ n_events' = n_events + 1
    /\ UNCHANGED << now, rules, execution_cache, executions, next_id, completed_at,
                    integrations, call, crud >>
    /\ LET verified == verify_signature(request)
           payload == json_loads(verified.body)
       IN  IF verified.raised # 0
           THEN respond(w, request, verified.raised)
           ELSE IF ~ is_json(verified.body)
                THEN respond(w, request, HTTP_400)
                ELSE process_trigger(w, request, platform,
                         internal_event(platform,
                             dict_get(payload, event_type_key(platform),
                                      py_str("unknown")).s),
                         payload)

\* POST /zendesk served by zendesk_webhook while the database refuses the
\* matcher's query
zendesk_webhook_query_error(w, request) ==
    /\ request.platform = "zendesk"
    /\ pc[w] = "idle"
    /\ n_events < MaxEvents
    /\ n_events' = n_events + 1
    /\ UNCHANGED << now, rules, execution_cache, executions, next_id, completed_at,
                    integrations, call, crud >>
    /\ verify_signature(request).raised = 0
    /\ is_json(request.body)
    /\ process_trigger_query_error(w, request)

\* the POST routes of the router, in the order the module registers them
routes ==
    << [path |-> "/zendesk", endpoint |-> "zendesk_webhook"],
       [path |-> "/freshdesk", endpoint |-> "freshdesk_webhook"],
       [path |-> "/freshdesk", endpoint |-> "handle_freshdesk_webhook"],
       [path |-> "/zendesk", endpoint |-> "handle_zendesk_webhook"] >>

\* the router serves a request with the first registered route that matches
endpoint_for(path) ==
    LET first == CHOOSE i \in DOMAIN routes :
                    /\ routes[i].path = path
                    /\ \A j \in DOMAIN routes : routes[j].path = path => i <= j
    IN  routes[first].endpoint

ZendeskWebhookHandler_verify_signature(secret, payload, signature, timestamp) ==
    IF secret = ""
    THEN TRUE
    ELSE signature = hmac_hexdigest(secret, timestamp \o payload)

FreshdeskWebhookHandler_verify_signature(secret, payload, signature) ==
    IF secret = ""
    THEN TRUE
    ELSE signature = hmac_hexdigest(secret, payload)

\* the event types parse_webhook_event knows (it sets parsed for them)
zendesk_parsed(event_type) ==
    event_type \in {"ticket.created", "ticket.updated", "ticket.solved", "ticket.closed",
                    "comment.created", "user.created", "user.updated",
                    "organization.created", "organization.updated"}

freshdesk_parsed(event_type) ==
    event_type \in {"ticket_created", "ticket_updated", "ticket_resolved",
                    "ticket_closed", "note_created", "contact_created",
                    "contact_updated"}

\* the later routes: the handler checks the signature, then calls
\* rule_engine.process_webhook_event, which RuleEngine does not have
\* (AttributeError, answered 500)
enhanced_route(w, request, signature_ok, parsed) ==
    /\ pc[w] = "idle"
    /\ n_events < MaxEvents
    /\ n_events' = n_events + 1
    /\ UNCHANGED << now, rules, execution_cache, executions, next_id, completed_at,
                    integrations, call, crud >>
    /\ LET verified == verify_signature(request)
       IN  IF verified.raised # 0
           THEN respond(w, request, verified.raised)
           ELSE IF ~ is_json(verified.body)
                THEN respond(w, request, HTTP_400)
                ELSE IF ~ signature_ok
                     THEN respond(w, request, HTTP_401)
                     ELSE IF parsed
                          THEN respond(w, request, HTTP_500)
                          ELSE respond(w, request, HTTP_200)

handle_zendesk_webhook(w, request) ==
    enhanced_route(w, request,
        ~ ( /\ request.signature # NoHeader
            /\ request.timestamp # NoHeader
            /\ ~ ZendeskWebhookHandler_verify_signature(
                    webhook_secret, request.body, request.signature, request.timestamp) ),
        is_json(request.body) /\ zendesk_parsed(json_loads(request.body).d.type.s))

handle_freshdesk_webhook(w, request) ==
    enhanced_route(w, request,
        ~ ( /\ request.signature # NoHeader
            /\ ~ FreshdeskWebhookHandler_verify_signature(
                    webhook_secret, request.body, request.signature) ),
        is_json(request.body) /\ freshdesk_parsed(json_loads(request.body).d.event_type.s))

\* POST /zendesk
zendesk_webhook(w, request) ==
    /\ request.platform = "zendesk"
    /\ IF endpoint_for("/zendesk") = "zendesk_webhook"
       THEN webhook_route(w, request, "zendesk")
       ELSE handle_zendesk_webhook(w, request)

\* POST /freshdesk
freshdesk_webhook(w, request) ==
    /\ request.platform = "freshdesk"
    /\ IF endpoint_for("/freshdesk") = "freshdesk_webhook"
       THEN webhook_route(w, request, "freshdesk")
       ELSE handle_freshdesk_webhook(w, request)

(***************************************************************************)
(* _execute_rule, one step per database round trip or external call        *)
(***************************************************************************)
executable(rule) ==
    rule.status = "active" /\ rule.is_enabled = TRUE /\ rule.deleted = FALSE

current_rule(w) == matching_rules[w][rule_idx[w]]

\* a dispatch that does not put its execution into the cache
cache_store_nothing(cache, execution_id) == cache

\* self.execution_cache[execution_id] = execution
cache_store(cache, execution_id) == cache \cup {execution_id}

\* a finally clause that leaves the cache as it is
cache_remove_nothing(cache, execution_id) == cache

\* the finally clause of _execute_rule (lines 304-307): the id is deleted from
\* the cache if it is there
cache_remove(cache, execution_id) == cache \ {execution_id}

\* self.execution_cache.get(execution_id), None being NoObject; an engine's
\* cache holds at most the object of the dispatch it is running
get_execution_status(w, execution_id) ==
    IF execution_id \in execution_cache[w] THEN executions[w] ELSE NoObject

\* lines 195-215: the RuleExecution object is created and cached
_execute_rule_begin(w) ==
    LET r == current_rule(w)
        row == loaded(w, r)
    IN  /\ pc[w] = "execute"
        /\ executions' = [executions EXCEPT ![w] =
                [id |-> next_id, rule_id |-> r, status |-> "running",
                 actions_executed |-> << >>,
                 rule_actions |-> row.actions, attempted |-> << >>,
                 started_executable |-> executable(rules[r]),
                 executor_calls |-> << >>, left_by |-> "None"]]
        /\ next_id' = next_id + 1
        /\ execution_cache' = [execution_cache EXCEPT ![w] = cache_store(@, next_id)]
        /\ execution' = [execution EXCEPT ![w] =
                [rule_id |-> r, actions |-> row.actions, act_idx |-> 1,
                 actions_executed |-> << >>, count_read |-> 0, start_time |-> now]]
        /\ session' = [session EXCEPT ![w] = after_access(w, r)]
        /\ pc' = [pc EXCEPT ![w] = IF row.actions = << >> THEN "stats" ELSE "action"]
        /\ UNCHANGED << now, rules, req, resp, invoked, matching_rules, rule_idx,
                        execution_ids, completed_at, matched, skipped, n_events,
                        integrations, query_failed, call, crud >>

\* what _execute_action does for one action: the executor's call returns a
\* result that reports success, returns one that reports success = False, or
\* an exception is raised
ActionOutcomes == {"returned", "returned_unsuccessful", "raised"}

\* the value _execute_action returns: the executor's result, passed on as it is
action_result(outcome) == [success |-> outcome = "returned"]

\* the entry the loop appends for the action (lines 216-231)
action_entry(action, outcome) ==
    IF outcome = "raised"
    THEN [action |-> action, error |-> "raised", status |-> "failed"]
    ELSE [action |-> action, result |-> action_result(outcome), status |-> "success"]

\* a loop that stops at the first failed action
after_action_abort(idx, n_actions, entry) ==
    IF idx = n_actions \/ entry.status = "failed" THEN "stats" ELSE "action"

\* the for loop goes on to the next action whatever the entry's status
after_action(idx, n_actions, entry) ==
    IF idx = n_actions THEN "stats" ELSE "action"

\* a lookup that takes soft-deleted integrations too
_get_integration_with_deleted(platform) ==
    integrations[platform].status = "active"

\* the WHERE clause of _get_integration: ACTIVE and not soft-deleted
_get_integration(platform) ==
    integrations[platform].status = "active" /\ ~ integrations[platform].deleted

\* how _execute_action ends: without an integration it raises ValueError
\* before the executor is looked up, else as the executor's call ends
action_outcome(found, outcome) == IF found THEN outcome ELSE "raised"

\* one iteration of the loop over rule.actions, with its _execute_action call
_execute_action(w, executor_outcome) ==
    LET e == execution[w]
        action == e.actions[e.act_idx]
        platform == action_platform(action)
        found == _get_integration(platform)
        outcome == action_outcome(found, executor_outcome)
        entry == action_entry(action, outcome)
        accessed == after_access(w, e.rule_id)
    IN  /\ pc[w] = "action"
        /\ executions' = [executions EXCEPT
                ![w].attempted = Append(@, action),
                ![w].executor_calls = IF found THEN Append(@, action) ELSE @]
        /\ integrations' =
                IF outcome # "raised"
                THEN [integrations EXCEPT
                        ![platform].total_actions_executed = @ + 1]
                ELSE integrations
        /\ execution' = [execution EXCEPT ![w] =
                [e EXCEPT !.actions_executed = Append(@, entry),
                          !.act_idx = @ + 1]]
        /\ session' = [session EXCEPT ![w] =
                IF outcome # "raised" THEN after_commit(accessed) ELSE accessed]
        /\ pc' = [pc EXCEPT ![w] = after_action(e.act_idx, Len(e.actions), entry)]
        /\ UNCHANGED << now, rules, req, resp, invoked, matching_rules, rule_idx,
                        execution_ids, execution_cache, next_id, completed_at, matched,
                        skipped, n_events, query_failed, call, crud >>

\* DELETE /integrations/{id}: soft delete of the owner's integration
delete_integration(platform) ==
    /\ ~ integrations[platform].deleted
    /\ integrations' = [integrations EXCEPT ![platform].deleted = TRUE]
    /\ UNCHANGED << now, rules, pc, req, resp, invoked, session, matching_rules,
                    rule_idx, execution, execution_ids, execution_cache, executions,
                    next_id, completed_at, matched, skipped, n_events, query_failed, call, crud >>

\* a finalization that puts the execution back to pending
final_execution_status_pending(actions_executed) == "pending"

\* line 235
final_execution_status(actions_executed) == "completed"

\* line 243
final_rule_status(actions_executed) == "success"

\* lines 233-241: the execution object is finalized and the row's counter read
_execute_rule_stats(w) ==
    LET e == execution[w]
    IN  /\ pc[w] = "stats"
        /\ executions' = [executions EXCEPT
                ![w].status = final_execution_status(e.actions_executed),
                ![w].actions_executed = e.actions_executed]
        /\ execution' = [execution EXCEPT
                ![w].count_read = loaded(w, e.rule_id).execution_count]
        /\ session' = [session EXCEPT ![w] = after_access(w, e.rule_id)]
        /\ pc' = [pc EXCEPT ![w] = "commit"]
        /\ UNCHANGED << now, rules, req, resp, invoked, matching_rules, rule_idx,
                        execution_ids, execution_cache, next_id, completed_at, matched,
                        skipped, n_events, integrations, query_failed, call, crud >>

\* lines 239-246, 270, 304-307 and the loop of process_trigger (60-67)
_execute_rule_commit(w) ==
    LET e == execution[w]
        id == executions[w].id
        ids == Append(execution_ids[w], id)
        last == rule_idx[w] = Len(matching_rules[w])
    IN  /\ pc[w] = "commit"
        /\ rules' = [rules EXCEPT ![e.rule_id] =
                [@ EXCEPT !.execution_count = e.count_read + 1,
                          !.last_executed_at = now,
                          !.last_execution_status =
                              final_rule_status(e.actions_executed)]]
        /\ completed_at' = [completed_at EXCEPT ![e.rule_id] = Append(@, now)]
        /\ execution_cache' = [execution_cache EXCEPT ![w] = cache_remove(@, id)]
        /\ execution_ids' = [execution_ids EXCEPT ![w] = ids]
        /\ execution' = [execution EXCEPT ![w] = NoExecution]
        /\ IF last
           THEN /\ pc' = [pc EXCEPT ![w] = "idle"]
                /\ resp' = [resp EXCEPT ![w] = response_after_process_trigger(ids)]
                /\ session' = [session EXCEPT ![w] = NoSession]
                /\ matching_rules' = [matching_rules EXCEPT ![w] = << >>]
                /\ rule_idx' = [rule_idx EXCEPT ![w] = 0]
           ELSE /\ pc' = [pc EXCEPT ![w] = "execute"]
                /\ session' = [session EXCEPT ![w] = after_commit(session[w])]
                /\ rule_idx' = [rule_idx EXCEPT ![w] = @ + 1]
                /\ UNCHANGED << resp, matching_rules >>
        /\ executions' = [executions EXCEPT ![w].left_by = "return"]
        /\ UNCHANGED << now, req, invoked, next_id, matched, skipped, n_events,
                        integrations, query_failed, call, crud >>

\* what a statement sent to the database does: it is executed, or it raises
DbOutcomes == {"ok", "error"}

\* lines 239-246 raise (the UPDATE or the commit fails): control passes to the
\* except branch of _execute_rule with the statistics unwritten
_execute_rule_stats_error(w) ==
    /\ pc[w] = "commit"
    /\ pc' = [pc EXCEPT ![w] = "except"]
    /\ UNCHANGED << now, rules, req, resp, invoked, session, matching_rules, rule_idx,
                    execution, execution_ids, execution_cache, executions, next_id,
                    completed_at, matched, skipped, n_events, integrations,
                    query_failed, call, crud >>

\* lines 272-307: the except branch writes last_execution_status = "failed" and
\* returns None; when its own UPDATE raises, the exception leaves _execute_rule
\* (through finally), process_trigger re-raises it and the route answers 500
_execute_rule_except(w, db) ==
    LET e == execution[w]
        id == executions[w].id
        last == rule_idx[w] = Len(matching_rules[w])
    IN  /\ pc[w] = "except"
        /\ execution_cache' = [execution_cache EXCEPT ![w] = cache_remove(@, id)]
        /\ execution' = [execution EXCEPT ![w] = NoExecution]
        /\ rules' = IF db = "ok"
                    THEN [rules EXCEPT ![e.rule_id].last_execution_status = "failed"]
                    ELSE rules
        /\ IF db = "error" \/ last
           THEN /\ pc' = [pc EXCEPT ![w] = "idle"]
                /\ resp' = [resp EXCEPT ![w] =
                        IF db = "error"
                        THEN HTTP_500
                        ELSE response_after_process_trigger(execution_ids[w])]
                /\ session' = [session EXCEPT ![w] = NoSession]
                /\ matching_rules' = [matching_rules EXCEPT ![w] = << >>]
                /\ rule_idx' = [rule_idx EXCEPT ![w] = 0]
           ELSE /\ pc' = [pc EXCEPT ![w] = "execute"]
                /\ session' = [session EXCEPT ![w] = after_commit(session[w])]
                /\ rule_idx' = [rule_idx EXCEPT ![w] = @ + 1]
                /\ UNCHANGED << resp, matching_rules >>
        /\ executions' = [executions EXCEPT ![w].left_by = "except"]
        /\ UNCHANGED << now, req, invoked, execution_ids, next_id, completed_at,
                        matched, skipped, n_events, integrations, query_failed, call, crud >>

(***************************************************************************)
(* Rule CRUD routes and the clock                                          *)
(***************************************************************************)
engine_vars == << now, pc, req, resp, invoked, session, matching_rules, rule_idx,
                  execution, execution_ids, execution_cache, executions, next_id,
                  completed_at, matched, skipped, n_events, integrations,
                  query_failed, call, crud >>

enable_rule(r) ==
    /\ rules[r].deleted = FALSE
    /\ rules' = [rules EXCEPT ![r] = [@ EXCEPT !.is_enabled = TRUE, !.status = "active"]]
    /\ UNCHANGED engine_vars

disable_rule(r) ==
    /\ rules[r].deleted = FALSE
    /\ rules' = [rules EXCEPT ![r] =
            [@ EXCEPT !.is_enabled = FALSE, !.status = "inactive"]]
    /\ UNCHANGED engine_vars

delete_rule(r) ==
    /\ rules[r].deleted = FALSE
    /\ rules' = [rules EXCEPT ![r] = [@ EXCEPT !.deleted = TRUE, !.is_enabled = FALSE]]
    /\ UNCHANGED engine_vars

\* the ids create_rule gives to new rows
CreatedRuleIds == {3}

\* RuleCreate: the rules the owner creates
RuleCreates ==
    [ trigger_platform : Platforms,
      trigger_event : {"ticket_created", "ticket.archived"},
      trigger_conditions : {py_dict(<< >>)},
      actions : {<< "a3" >>},
      max_executions_per_hour : {1},
      execution_timeout_seconds : {DefaultExecutionTimeoutSeconds} ]

\* the row create_rule inserts: a disabled draft without statistics
created_row(data) ==
    [ status |-> "draft",
      is_enabled |-> FALSE,
      deleted |-> FALSE,
      trigger_platform |-> data.trigger_platform,
      trigger_event |-> data.trigger_event,
      trigger_conditions |-> data.trigger_conditions,
      actions |-> data.actions,
      max_executions_per_hour |-> data.max_executions_per_hour,
      execution_timeout_seconds |-> data.execution_timeout_seconds,
      execution_count |-> 0,
      last_executed_at |-> NoneTime,
      last_execution_status |-> "None" ]

\* POST /rules: the row gets the next id of the table
create_rule(data) ==
    LET id == Cardinality(DOMAIN rules) + 1
        ids == DOMAIN rules \cup {id}
    IN  /\ id \in CreatedRuleIds
        /\ rules' = [r \in ids |-> IF r = id THEN created_row(data) ELSE rules[r]]
        /\ completed_at' = [r \in ids |-> IF r = id THEN << >> ELSE completed_at[r]]
        /\ matched' = [r \in ids |-> IF r = id THEN 0 ELSE matched[r]]
        /\ skipped' = [r \in ids |-> IF r = id THEN 0 ELSE skipped[r]]
        /\ UNCHANGED << now, pc, req, resp, invoked, session, matching_rules, rule_idx,
                        execution, execution_ids, execution_cache, executions, next_id,
                        n_events, integrations, query_failed, call, crud >>

\* a PUT /rules/{id} that also clears the rule's statistics
update_rule_clears_statistics(r, data) ==
    /\ rules[r].deleted = FALSE
    /\ rules' = [rules EXCEPT ![r] =
            [@ EXCEPT !.status = IF "status" \in data.given THEN data.status ELSE @,
                      !.execution_count = 0,
                      !.last_executed_at = NoneTime]]
    /\ UNCHANGED engine_vars

\* RuleUpdate: every field is optional; given names the fields that are not None
RuleUpdates ==
    { d \in [given : SUBSET {"status", "is_enabled", "max_executions_per_hour"},
             status : RuleStatus,
             is_enabled : BOOLEAN,
             max_executions_per_hour : MaxPerHourChoices] :
        /\ "status" \notin d.given => d.status = "active"
        /\ "is_enabled" \notin d.given => d.is_enabled = TRUE
        /\ "max_executions_per_hour" \notin d.given => d.max_executions_per_hour = 1 }

\* the updates that set the status alone
StatusUpdates == { d \in RuleUpdates : d.given = {"status"} }

update_rule(r, data) ==
    /\ rules[r].deleted = FALSE
    /\ rules' = [rules EXCEPT ![r] =
            [@ EXCEPT !.status = IF "status" \in data.given THEN data.status ELSE @,
                      !.is_enabled = IF "is_enabled" \in data.given
                                     THEN data.is_enabled ELSE @,
                      !.max_executions_per_hour =
                          IF "max_executions_per_hour" \in data.given
                          THEN data.max_executions_per_hour ELSE @]]
    /\ UNCHANGED engine_vars

\* a RuleUpdate with every field None
NoUpdate == CHOOSE d \in RuleUpdates : d.given = {}

\* a RuleUpdate that sets the rule active and enabled
ActivatingUpdate == CHOOSE d \in RuleUpdates :
    d.given = {"status", "is_enabled"} /\ d.status = "active" /\ d.is_enabled

\* the requests to the rule routes that change a row
RuleRequests ==
    { [op |-> o, rule |-> r, data |-> NoUpdate] :
        o \in {"enable_rule", "disable_rule", "delete_rule"}, r \in RuleIds }
    \cup { [op |-> "update_rule", rule |-> r, data |-> ActivatingUpdate] : r \in RuleIds }

\* the first statement of the four routes: the row is selected by id with
\* deleted_at IS NULL; without a row the route answers 404
rule_select(request) ==
    /\ request \notin crud
    /\ Cardinality(crud) < MaxCrudInFlight
    /\ rules[request.rule].deleted = FALSE
    /\ crud' = crud \cup {request}
    /\ UNCHANGED << now, rules, pc, req, resp, invoked, session, matching_rules,
                    rule_idx, execution, execution_ids, execution_cache, executions,
                    next_id, completed_at, matched, skipped, n_events, integrations,
                    query_failed, call >>

\* the values the route's UPDATE writes
updated_row(row, request) ==
    CASE request.op = "enable_rule" ->
            [row EXCEPT !.is_enabled = TRUE, !.status = "active"]
      [] request.op = "disable_rule" ->
            [row EXCEPT !.is_enabled = FALSE, !.status = "inactive"]
      [] request.op = "delete_rule" ->
            [row EXCEPT !.deleted = TRUE, !.is_enabled = FALSE]
      [] request.op = "update_rule" ->
            [row EXCEPT !.status = IF "status" \in request.data.given
                                   THEN request.data.status ELSE @,
                        !.is_enabled = IF "is_enabled" \in request.data.given
                                       THEN request.data.is_enabled ELSE @,
                        !.max_executions_per_hour =
                            IF "max_executions_per_hour" \in request.data.given
                            THEN request.data.max_executions_per_hour ELSE @]

\* the second statement: UPDATE rules ... WHERE id = rule_id, and the commit
rule_update(request) ==
    /\ request \in crud
    /\ rules' = [rules EXCEPT ![request.rule] = updated_row(@, request)]
    /\ crud' = crud \ {request}
    /\ UNCHANGED << now, pc, req, resp, invoked, session, matching_rules,
                    rule_idx, execution, execution_ids, execution_cache, executions,
                    next_id, completed_at, matched, skipped, n_events, integrations,
                    query_failed, call >>

\* what RuleEngine.test_rule returns: its first statement calls
\* self._evaluate_test_conditions, a method RuleEngine does not have; the
\* AttributeError is caught by the function's except clause (lines 430-436)
test_rule_result(rule, test_payload) ==
    [status |-> "error", conditions_match |-> FALSE, actions_to_execute |-> << >>]

\* POST /rules/{id}/test: the row is selected (404 when it is deleted) and
\* the engine's answer returned
test_rule(r, test_payload) ==
    LET returned == test_rule_result(rules[r], test_payload)
    IN  /\ rules[r].deleted = FALSE
        /\ call' = [op |-> "test_rule", rule |-> rules[r], payload |-> test_payload,
                    result |-> returned.status,
                    conditions_match |-> returned.conditions_match,
                    actions_to_execute |-> returned.actions_to_execute]
        /\ UNCHANGED << now, rules, pc, req, resp, invoked, session, matching_rules,
                        rule_idx, execution, execution_ids, execution_cache,
                        executions, next_id, completed_at, matched, skipped, n_events,
                        integrations, query_failed, crud >>

\* the clock advances; completion times that left the trailing hour are dropped
still_recent(t) == t > (now + 1) - Hour

Tick ==
    /\ now < MaxTime
    /\ now' = now + 1
    /\ completed_at' = [r \in DOMAIN rules |-> SelectSeq(completed_at[r], still_recent)]
    /\ UNCHANGED << rules, pc, req, resp, invoked, session, matching_rules, rule_idx,
                    execution, execution_ids, execution_cache, executions, next_id,
                    matched, skipped, n_events, integrations, query_failed, call, crud >>

(***************************************************************************)
(* Specifications                                                          *)
(***************************************************************************)
\* the steps of a dispatch, the executors ending in one of the given ways
DispatchWith(w, outcomes) ==
    \/ _execute_rule_begin(w)
    \/ \E executor_outcome \in outcomes : _execute_action(w, executor_outcome)
    \/ _execute_rule_stats(w)
    \/ _execute_rule_commit(w)

Dispatch(w) == DispatchWith(w, ActionOutcomes)

\* a dispatch whose executors all return a successful result
DispatchReturning(w) == DispatchWith(w, {"returned"})

\* one server process: trigger events are processed one after another
Next ==
    \/ \E request \in EngineRequests : zendesk_webhook("w1", request)
    \/ Dispatch("w1")
    \/ Tick

Spec == Init /\ [][Next]_vars

\* several server processes on one database
ConcNext ==
    \/ \E w \in Workers, request \in EngineRequests : zendesk_webhook(w, request)
    \/ \E w \in Workers : DispatchReturning(w)

ConcSpec == Init /\ [][ConcNext]_vars

\* one server process and the rule CRUD routes, which run in the thread pool
CrudNext ==
    \/ \E request \in EngineRequests :
          /\ n_events < MaxCrudEvents
          /\ zendesk_webhook("w1", request)
    \/ DispatchReturning("w1")
    \/ \E r \in RuleIds : enable_rule(r)
    \/ \E r \in RuleIds : disable_rule(r)
    \/ \E r \in RuleIds : delete_rule(r)
    \/ \E r \in RuleIds, data \in StatusUpdates : update_rule(r, data)

CrudSpec == Init /\ [][CrudNext]_vars

\* one server process receiving any request on either webhook route
WebhookNext ==
    \/ \E request \in Requests : zendesk_webhook("w1", request)
    \/ \E request \in Requests : freshdesk_webhook("w1", request)
    \/ DispatchReturning("w1")

WebhookSpec == Init /\ [][WebhookNext]_vars

\* one server process and the owner deleting integrations
IntegrationNext ==
    \/ \E request \in EngineRequests :
          /\ n_events < MaxCrudEvents
          /\ zendesk_webhook("w1", request)
    \/ Dispatch("w1")
    \/ \E platform \in IntegrationPlatforms : delete_integration(platform)

IntegrationSpec == Init /\ [][IntegrationNext]_vars

\* one server process receiving Zendesk's requests with bodies of every shape,
\* the owner disabling the rule that has no conditions
PayloadNext ==
    \/ \E request \in SignedRequests :
          /\ n_events < MaxCrudEvents
          /\ zendesk_webhook("w1", request)
    \/ DispatchReturning("w1")
    \/ disable_rule(1)

PayloadSpec == Init /\ [][PayloadNext]_vars

\* one server process on a database whose statements can fail
FaultNext ==
    \/ \E request \in EngineRequests :
          /\ n_events < MaxCrudEvents
          /\ zendesk_webhook("w1", request)
    \/ Dispatch("w1")
    \/ \E request \in EngineRequests :
          /\ n_events < MaxCrudEvents
          /\ zendesk_webhook_query_error("w1", request)
    \/ _execute_rule_stats_error("w1")
    \/ \E db \in DbOutcomes : _execute_rule_except("w1", db)

FaultSpec == Init /\ [][FaultNext]_vars

\* the platforms' requests with a flat body of priority high
FlatRequests ==
    { r \in SignedRequests :
        is_json(r.body) /\ r.body[2] = "flat" /\ r.body[3] = "high" }

\* one server process receiving both platforms' events, the owner creating
\* and enabling rules
CreateNext ==
    \/ \E request \in FlatRequests :
          /\ n_events < MaxCrudEvents
          /\ zendesk_webhook("w1", request)
    \/ \E request \in FlatRequests :
          /\ n_events < MaxCrudEvents
          /\ freshdesk_webhook("w1", request)
    \/ DispatchReturning("w1")
    \/ \E data \in RuleCreates : create_rule(data)
    \/ \E r \in DOMAIN rules : enable_rule(r)

CreateSpec == Init /\ [][CreateNext]_vars

\* one server process and the owner creating rules and changing the first ones
OwnerNext ==
    \/ \E request \in EngineRequests :
          /\ n_events < MaxOwnerEvents
          /\ zendesk_webhook("w1", request)
    \/ DispatchReturning("w1")
    \/ \E data \in RuleCreates : create_rule(data)
    \/ \E r \in RuleIds : enable_rule(r)
    \/ \E r \in RuleIds : disable_rule(r)
    \/ \E r \in RuleIds : delete_rule(r)
    \/ \E r \in RuleIds, data \in StatusUpdates : update_rule(r, data)

OwnerSpec == Init /\ [][OwnerNext]_vars

\* one server process and requests to the rule routes that overlap
RaceNext ==
    \/ \E request \in EngineRequests :
          /\ n_events < MaxOwnerEvents
          /\ zendesk_webhook("w1", request)
    \/ DispatchReturning("w1")
    \/ \E request \in RuleRequests : rule_select(request)
    \/ \E request \in RuleRequests : rule_update(request)

RaceSpec == Init /\ [][RaceNext]_vars

\* one server process and the owner testing rules
TestNext ==
    \/ \E request \in EngineRequests :
          /\ n_events < MaxOwnerEvents
          /\ zendesk_webhook("w1", request)
    \/ DispatchReturning("w1")
    \/ \E r \in RuleIds, test_payload \in Payloads : test_rule(r, test_payload)

TestSpec == Init /\ [][TestNext]_vars

\* the evaluator applied to one condition map and one payload
EvalNext == evaluate_conditions_call

EvalSpec == EvalInit /\ [][EvalNext]_vars

(***************************************************************************)
(* Properties                                                              *)
(***************************************************************************)
any_failed(entries) == \E i \in DOMAIN entries : entries[i].status = "failed"

is_prefix(s, t) == Len(s) <= Len(t) /\ \A i \in DOMAIN s : s[i] = t[i]

\* C1: processed one after another, a rule never has more completed executions
\* in the trailing hour than its max_executions_per_hour
C1_HourlyCeiling ==
    \A r \in RuleIds : Len(completed_at[r]) <= rules[r].max_executions_per_hour

C1_CeilingReached ==
    \E r \in RuleIds :
        /\ Len(completed_at[r]) = rules[r].max_executions_per_hour
        /\ skipped[r] > 0
        /\ now > Hour

\* C2: with several events of a rule in flight at once, the rule still has at
\* most max_executions_per_hour completed executions within the hour
C2_ConcurrentCeiling ==
    \A r \in RuleIds :
        Cardinality(DOMAIN completed_at[r]) <= rules[r].max_executions_per_hour

\* C3: a rule with fewer than max_executions_per_hour completed executions in
\* the trailing hour is allowed by _check_rate_limit
C3_SlidingWindow ==
    \A r \in RuleIds :
        Len(completed_at[r]) < rules[r].max_executions_per_hour
            => _check_rate_limit(rules[r], now)

\* C4: from no prior executions, N matching events within one hour give
\* min(N, M) executions and N - min(N, M) rate-limited skips
C4_BurstWithinHour ==
    (pc["w1"] = "idle" /\ now < Hour) =>
        \A r \in RuleIds :
            LET M == rules[r].max_executions_per_hour
                N == matched[r]
            IN  /\ Len(completed_at[r]) = Min(N, M)
                /\ skipped[r] = N - Min(N, M)

C4_ThreeEventsTwoExecutions ==
    /\ pc["w1"] = "idle"
    /\ now < Hour
    /\ rules[1].max_executions_per_hour = 2
    /\ matched[1] = 3
    /\ Len(completed_at[1]) = 2
    /\ skipped[1] = 1

\* C5: every execution starts while its rule is enabled, active and not deleted
C5_StartsOnlyWhileExecutable ==
    \A w \in Workers : executions[w].started_executable

\* C8: every action of the rule is attempted once, in order, whatever failed
\* before it, and the finalized execution holds one entry per action in order
C8_AllActionsInOrder ==
    \A w \in Workers :
        LET o == executions[w]
        IN  o.id # 0 =>
              /\ is_prefix(o.attempted, o.rule_actions)
              /\ o.status = "running" =>
                    Len(execution[w].actions_executed) = Len(o.attempted)
              /\ o.status # "running" =>
                    /\ o.attempted = o.rule_actions
                    /\ Len(o.actions_executed) = Len(o.rule_actions)
                    /\ \A i \in DOMAIN o.actions_executed :
                          o.actions_executed[i].action = o.rule_actions[i]

C8_SecondActionAfterFailure ==
    \E w \in Workers :
        LET o == executions[w]
        IN  /\ o.status # "running"
            /\ Len(o.actions_executed) = 2
            /\ o.actions_executed[1].status = "failed"

\* C9: a finalized execution has status failed when an action failed, and
\* completed only when every action succeeded
C9_FailedWhenActionFailed ==
    \A w \in Workers :
        LET o == executions[w]
        IN  o.status \in {"completed", "failed"} =>
              (o.status = "failed" <=> any_failed(o.actions_executed))

\* C10: after an execution last_execution_status is failed when an action of it
\* failed, and success only when all succeeded
C10_RuleStatusReflectsFailure ==
    \A w \in Workers :
        LET o == executions[w]
        IN  (o.status \in {"completed", "failed"} /\ o.id \notin execution_cache[w]) =>
              rules[o.rule_id].last_execution_status =
                  (IF any_failed(o.actions_executed) THEN "failed" ELSE "success")

\* the request's signature header came and is not the tag of its body (for
\* Zendesk of timestamp + body) under the configured secret
signature_mismatch(request) ==
    /\ request.signature # NoHeader
    /\ request.signature #
         hmac_hexdigest(webhook_secret,
                        IF request.platform = "zendesk"
                        THEN request.timestamp \o request.body
                        ELSE request.body)

\* C6: a request whose signature does not match is answered 401 and the rule
\* engine is not entered for it (stated for bodies that are JSON: the routes
\* answer 400 to the others)
C6_BadSignatureRejected ==
    \A w \in Workers :
        (req[w] # NoRequest /\ is_json(req[w].body) /\ signature_mismatch(req[w])) =>
            (resp[w] = HTTP_401 /\ ~ invoked[w])

\* C7: a request without the signature header, or a Zendesk request without
\* the timestamp header, is answered 401 and the rule engine is not entered
\* (stated for bodies that are JSON)
C7_MissingHeaderRejected ==
    \A w \in Workers :
        ( /\ req[w] # NoRequest
          /\ is_json(req[w].body)
          /\ \/ req[w].signature = NoHeader
             \/ req[w].platform = "zendesk" /\ req[w].timestamp = NoHeader ) =>
            (resp[w] = HTTP_401 /\ ~ invoked[w])

\* C11: an entry of a finalized execution has status success only if the
\* executor reported success; a result with success = False is recorded failed
C11_UnsuccessfulResultRecordedFailed ==
    \A w \in Workers :
        LET o == executions[w]
        IN  o.status # "running" =>
              \A i \in DOMAIN o.actions_executed :
                  o.actions_executed[i].status = "success" =>
                      o.actions_executed[i].result.success

\* the rule owner has no active integration for the platform
no_active_integration(platform) ==
    integrations[platform].deleted \/ integrations[platform].status # "active"

\* C12: an action whose platform has no active integration is recorded failed,
\* no executor is called for it, no integration statistic changes, and the
\* loop goes on to the next action of the rule
C12_MissingIntegration ==
    [][ \A w \in Workers :
          LET e == execution[w]
              action == e.actions[e.act_idx]
          IN  ( /\ pc[w] = "action"
                /\ execution'[w].act_idx = e.act_idx + 1
                /\ no_active_integration(action_platform(action)) ) =>
              ( /\ LET entries == execution'[w].actions_executed
                   IN  /\ Len(entries) = e.act_idx
                       /\ entries[e.act_idx].action = action
                       /\ entries[e.act_idx].status = "failed"
                /\ executions'[w].executor_calls = executions[w].executor_calls
                /\ integrations' = integrations
                /\ e.act_idx < Len(e.actions) => pc'[w] = "action" )
    ]_vars

C12_SiblingAfterMissingIntegration ==
    \E w \in Workers :
        LET o == executions[w]
        IN  /\ o.status = "completed"
            /\ o.rule_actions = << "a1", "a2" >>
            /\ no_active_integration("slack")
            /\ ~ no_active_integration("trello")
            /\ o.executor_calls = << "a2" >>
            /\ o.actions_executed[1].status = "failed"
            /\ o.actions_executed[2].status = "success"
            /\ integrations["slack"].total_actions_executed = 0

\* C13: process_trigger returns only after the last rule of the matched list
\* was dispatched, whatever failed while an earlier one was executed
C13_SiblingRulesStillDispatched ==
    [][ \A w \in Workers :
          (pc[w] # "idle" /\ pc'[w] = "idle") => rule_idx[w] = Len(matching_rules[w])
    ]_vars

\* the dispatch started at start_time has run longer than the rule allows
timeout_exceeded(rule, start_time, t) ==
    (t - start_time) * TickSeconds > rule.execution_timeout_seconds

\* C14: a dispatch that has exceeded its rule's execution_timeout_seconds
\* starts no further action and its execution is not finalized as completed
C14_DispatchCutOffAtTimeout ==
    [][ \A w \in Workers :
          LET e == execution[w]
          IN  ( /\ pc[w] \in {"action", "stats"}
                /\ timeout_exceeded(rules[e.rule_id], e.start_time, now) ) =>
              ( /\ execution'[w].act_idx = e.act_idx
                /\ executions'[w].status # "completed" )
    ]_vars

\* C15: once its dispatch has returned, an execution has a terminal status:
\* completed when _execute_rule returned normally, failed when it ended
\* through its except branch, never running
C15_TerminalStatusOnReturn ==
    \A w \in Workers :
        LET o == executions[w]
        IN  /\ o.left_by = "return" => o.status = "completed"
            /\ o.left_by = "except" => o.status = "failed"

\* one step of an execution's status along pending -> running -> terminal
status_moves_forward(before, after) ==
    \/ after = before
    \/ before = "pending" /\ after = "running"
    \/ before = "running" /\ after \in {"completed", "failed"}

\* C16: the status of an execution only moves forward: a completed or failed
\* execution never changes again and a running one never becomes pending
C16_StatusMonotonic ==
    [][ \A w \in Workers :
          (executions[w].id # 0 /\ executions'[w].id = executions[w].id) =>
              status_moves_forward(executions[w].status, executions'[w].status)
    ]_vars

C16_FinalizedThenLeftByExcept ==
    \E w \in Workers :
        /\ executions[w].status = "completed"
        /\ executions[w].left_by = "except"
        /\ executions[w].id \notin execution_cache[w]

engine_failure(w) ==
    \/ query_failed[w]
    \/ any_failed(executions[w].actions_executed)
    \/ executions[w].left_by = "except"

\* the failure is on record: a failed execution or a failed rule status
failure_recorded(w) ==
    \/ executions[w].status = "failed"
    \/ \E r \in RuleIds : rules[r].last_execution_status = "failed"

nested_high_request ==
    [platform |-> "zendesk",
     body |-> << "ticket.created", "nested", "high" >>,
     timestamp |-> << "t1" >>,
     signature |-> platform_signature("zendesk",
                       << "ticket.created", "nested", "high" >>, << "t1" >>)]

\* C19: with rule 2 (ticket_created, priority = high) the only active rule and
\* a nested ticket.created body of priority high as the first event, the
\* response is a success that holds exactly one execution id
C19_NestedFieldMatched ==
    \A w \in Workers :
        ( /\ req[w] = nested_high_request
          /\ n_events = 1
          /\ pc[w] = "idle"
          /\ resp[w] # 0
          /\ ~ executable(rules[1])
          /\ matched[1] = 0
          /\ executable(rules[2]) ) =>
        ( /\ resp[w] = HTTP_200
          /\ Len(execution_ids[w]) = 1 )

\* the rule is a candidate for the event: platform, event name, active,
\* enabled, not deleted
is_candidate(rule, platform, event) ==
    /\ rule.trigger_platform = platform
    /\ rule.trigger_event = event
    /\ rule.status = "active"
    /\ rule.is_enabled
    /\ ~ rule.deleted

\* C20: the list the matcher returns for a Zendesk event holds exactly the
\* candidates whose conditions match and whose rate limit allows them, each
\* once, decided rule by rule
C20_ExactlyTheMatchingRules ==
    [][ \A w \in Workers :
          ( /\ pc[w] = "idle"
            /\ n_events' = n_events + 1
            /\ invoked'[w]
            /\ ~ query_failed'[w] ) =>
          LET payload == json_loads(req'[w].body)
              event == zendesk_event_mapping(payload.d.type.s)
              returned == matching_rules'[w]
          IN  /\ \A r \in RuleIds :
                    (\E i \in DOMAIN returned : returned[i] = r) <=>
                        ( /\ is_candidate(rules[r], "zendesk", event)
                          /\ _evaluate_conditions(rules[r], payload)
                          /\ _check_rate_limit(rules[r], now) )
              /\ \A i, j \in DOMAIN returned : returned[i] = returned[j] => i = j
    ]_vars

C20_LaterRuleKeptAfterRateLimitedOne ==
    /\ pc["w1"] = "execute"
    /\ matching_rules["w1"] = << 2 >>
    /\ executable(rules[1])
    /\ skipped[1] = 1
    /\ matched[2] = 1

(***************************************************************************)
(* Properties of the evaluator                                             *)
(***************************************************************************)
\* the call of the evaluator has returned or raised
evaluated == call.op = "_evaluate_conditions" /\ call.result # "pending"

\* the event field satisfies the comparison the condition map holds for it
field_satisfies(payload, conditions, key) ==
    /\ dict_has(payload, key)
    /\ compare(payload.d[key], conditions.d[key]) = "ok"

\* C21: the evaluator never raises; it returns True exactly when every field
\* of the condition map is in the event and satisfies its comparison, so an
\* empty or absent map matches every event and one missing field is a
\* non-match
C21_EveryConditionMustHold ==
    evaluated =>
        LET conditions == call.rule.trigger_conditions
            payload == call.payload
        IN  /\ call.result \in {"True", "False"}
            /\ is_falsy(conditions) => call.result = "True"
            /\ ~ is_falsy(conditions) =>
                  ( call.result = "True" <=>
                      \A key \in DOMAIN conditions.d :
                          field_satisfies(payload, conditions, key) )

C21_RaisingComparisonIsNonMatch ==
    /\ evaluated
    /\ call.rule.trigger_conditions =
          py_dict([priority |-> py_dict([operator |-> py_str("contains"),
                                         value |-> py_int(2)]),
                   subject |-> py_str("hi")])
    /\ call.payload = py_dict([priority |-> py_int(2), subject |-> py_str("hi")])
    /\ compare(call.payload.d.priority, call.rule.trigger_conditions.d.priority)
          = "TypeError"
    /\ call.result = "False"

\* the condition is a dict that names the operator
has_operator(expected_value, name) ==
    /\ expected_value.type = "dict"
    /\ dict_has(expected_value, "operator")
    /\ expected_value.d.operator = py_str(name)

\* the value is a JSON number
is_json_number(value) == value.type = "int"

\* C22: a rule with a greater_than (less_than) condition matches only when the
\* event field is a number strictly greater (less) than the condition value,
\* and the evaluator does not raise
C22_NumericOperators ==
    evaluated =>
        LET conditions == call.rule.trigger_conditions
            payload == call.payload
        IN  ~ is_falsy(conditions) =>
              \A key \in DOMAIN conditions.d :
                  LET expected == conditions.d[key]
                      value == dict_get(expected, "value", None)
                  IN  /\ has_operator(expected, "greater_than") =>
                          /\ call.result \in {"True", "False"}
                          /\ call.result = "True" =>
                                /\ dict_has(payload, key)
                                /\ is_json_number(payload.d[key])
                                /\ is_json_number(value)
                                /\ payload.d[key].n > value.n
                      /\ has_operator(expected, "less_than") =>
                          /\ call.result \in {"True", "False"}
                          /\ call.result = "True" =>
                                /\ dict_has(payload, key)
                                /\ is_json_number(payload.d[key])
                                /\ is_json_number(value)
                                /\ payload.d[key].n < value.n

\* the operators the evaluator has a branch for
KnownOperators == {"equals", "contains", "starts_with", "ends_with",
                   "greater_than", "less_than"}

\* the condition is a dict whose operator is none of the known ones
has_unknown_operator(expected_value) ==
    /\ expected_value.type = "dict"
    /\ dict_has(expected_value, "operator")
    /\ \A name \in KnownOperators : expected_value.d.operator # py_str(name)

\* C30: a condition whose operator is not a known one asks only for the field
\* to be present: the rule matches exactly the events that carry the field and
\* satisfy the other conditions
C30_UnknownOperatorIgnored ==
    evaluated =>
        LET conditions == call.rule.trigger_conditions
            payload == call.payload
        IN  ~ is_falsy(conditions) =>
              \A key \in DOMAIN conditions.d :
                  has_unknown_operator(conditions.d[key]) =>
                      ( call.result = "True" <=>
                          /\ dict_has(payload, key)
                          /\ \A other \in DOMAIN conditions.d \ {key} :
                                field_satisfies(payload, conditions, other) )

C30_MatchedWhateverTheValue ==
    /\ evaluated
    /\ call.rule.trigger_conditions =
          py_dict([priority |-> py_dict([operator |-> py_str("regex"),
                                         value |-> py_str("hi")]),
                   subject |-> py_str("hi")])
    /\ call.payload = py_dict([priority |-> py_str("low"), subject |-> py_str("hi")])
    /\ call.result = "True"

(***************************************************************************)
(* Properties of event names and of the rule routes                        *)
(***************************************************************************)
\* the native names of Zendesk's mapping table
ZendeskMappedNames ==
    {"ticket.created", "ticket.updated", "ticket.status_changed",
     "ticket.priority_changed", "ticket.assignee_changed", "ticket.tag_added",
     "ticket.tag_removed"}

\* the native names of Freshdesk's mapping table
FreshdeskMappedNames ==
    {"ticket_create", "ticket_update", "ticket_status_change",
     "ticket_priority_change", "ticket_agent_change", "ticket_tag_add",
     "ticket_tag_remove"}

MappedNames(platform) ==
    IF platform = "zendesk" THEN ZendeskMappedNames ELSE FreshdeskMappedNames

\* the native names the events carry that are in neither table
UnmappedNames ==
    { body[1] : body \in { b \in Bodies : is_json(b) } }
        \ (ZendeskMappedNames \cup FreshdeskMappedNames)

\* the rule ids of a list
rule_set(list) == { list[i] : i \in DOMAIN list }

\* C23: an event whose native name is not in the mapping table reaches the
\* matcher under that name: every executable rule of the platform whose trigger_event
\* is the native name, whose conditions match and whose rate limit allows it
\* is in the matched list, and is executed before the request ends
C23_UnmappedNameReachesMatcher ==
    [][ \A w \in Workers :
          /\ ( /\ pc[w] = "idle"
               /\ n_events' = n_events + 1
               /\ invoked'[w] ) =>
             LET platform == req'[w].platform
                 payload == json_loads(req'[w].body)
                 name == payload.d[event_type_key(platform)].s
             IN  name \notin MappedNames(platform) =>
                   \A r \in DOMAIN rules :
                       ( /\ executable(rules[r])
                         /\ rules[r].trigger_platform = platform
                         /\ rules[r].trigger_event = name
                         /\ _evaluate_conditions(rules[r], payload)
                         /\ _check_rate_limit(rules[r], now) ) =>
                       r \in rule_set(matching_rules'[w])
          /\ (\A v \in Workers : pc'[v] = "idle") =>
                \A r \in DOMAIN rules' :
                    rules'[r].trigger_event \in UnmappedNames =>
                        Len(completed_at'[r]) = matched'[r] - skipped'[r]
    ]_vars

C23_RuleOfNativeNameExecuted ==
    /\ pc["w1"] = "idle"
    /\ req["w1"].platform = "freshdesk"
    /\ req["w1"].body = << "ticket.archived", "flat", "high" >>
    /\ 3 \in DOMAIN rules
    /\ rules[3].trigger_event = "ticket.archived"
    /\ executions["w1"].rule_id = 3
    /\ executions["w1"].status = "completed"
    /\ rules[3].execution_count = 1

\* C24: a rule's execution_count and last_executed_at change only when a
\* dispatch of the rule that attempted all its actions writes its statistics
C24_StatisticsChangeOnlyInDispatch ==
    [][ \A r \in DOMAIN rules :
          ( \/ rules'[r].execution_count # rules[r].execution_count
            \/ rules'[r].last_executed_at # rules[r].last_executed_at ) =>
          \E w \in Workers :
              /\ pc[w] = "commit"
              /\ execution[w].rule_id = r
              /\ Len(execution[w].actions_executed) = Len(execution[w].actions)
              /\ executions'[w].left_by = "return"
    ]_vars

C24_ExecutedRuleChangedByOwner ==
    /\ 3 \in DOMAIN rules
    /\ rules[1].execution_count = 1
    /\ rules[1].last_executed_at = 0
    /\ rules[1].deleted
    /\ rules[2].execution_count = 1
    /\ rules[2].status = "archived"
    /\ rules[2].is_enabled = FALSE

\* C25: when the conditions of a rule match an event and its rate limit
\* rejects it, the row's statistics and last status stay as they are, the rule
\* is not in the list to dispatch, no execution object is created, and the
\* caller gets no error response
C25_RateLimitedRuleSkippedSilently ==
    [][ \A w \in Workers :
          ( /\ pc[w] = "idle"
            /\ n_events' = n_events + 1
            /\ invoked'[w] ) =>
          \A r \in DOMAIN rules :
              skipped'[r] = skipped[r] + 1 =>
                  /\ rules'[r] = rules[r]
                  /\ r \notin rule_set(matching_rules'[w])
                  /\ executions' = executions
                  /\ next_id' = next_id
                  /\ resp'[w] < HTTP_400
    ]_vars

\* the execution ids process_trigger has returned for the rule: each normal
\* return of _execute_rule adds one id to the list and one completion time,
\* and no completion time is dropped while the clock stands
returned_ids(r) == Len(completed_at[r])

\* C26: with no dispatch in progress, a rule's execution_count has grown by
\* the number of execution ids returned for it
C26_CountEqualsReturnedIds ==
    (\A w \in Workers : pc[w] = "idle") =>
        \A r \in DOMAIN rules : rules[r].execution_count = returned_ids(r)

\* no _execute_rule call of the engine is in progress
no_dispatch_running(w) == pc[w] \in {"idle", "execute"}

\* C27: an engine's cache is empty whenever none of its dispatches is running,
\* and a lookup of an id that process_trigger has put on its list finds nothing
C27_CacheHoldsOnlyRunningDispatch ==
    \A w \in Workers :
        /\ no_dispatch_running(w) => execution_cache[w] = {}
        /\ \A i \in DOMAIN execution_ids[w] :
              get_execution_status(w, execution_ids[w][i]) = NoObject

C27_ReturnedIdNotFound ==
    \E w \in Workers :
        /\ pc[w] = "idle"
        /\ Len(execution_ids[w]) = 1
        /\ executions[w].left_by = "except"
        /\ executions[w].id # execution_ids[w][1]
        /\ get_execution_status(w, execution_ids[w][1]) = NoObject
        /\ get_execution_status(w, executions[w].id) = NoObject

\* C28: a soft-deleted rule stays deleted whatever the rule routes write, and
\* the matcher returns it for no event that arrives once it is deleted
C28_DeletedRuleStaysOut ==
    [][ \A r \in DOMAIN rules :
          rules[r].deleted =>
              /\ rules'[r].deleted
              /\ \A w \in Workers :
                    ( /\ pc[w] = "idle"
                      /\ n_events' = n_events + 1
                      /\ invoked'[w] ) =>
                    r \notin rule_set(matching_rules'[w])
    ]_vars

C28_EnabledAgainAfterDeletion ==
    /\ rules[1].deleted
    /\ rules[1].is_enabled
    /\ rules[1].status = "active"
    /\ crud = {}
    /\ pc["w1"] = "idle"
    /\ invoked["w1"]
    /\ req["w1"].body = << "ticket.created", "flat", "low" >>
    /\ matched[1] = 0
    /\ execution_ids["w1"] = << >>

\* C29: test_rule answers success, with conditions_match true and one
\* simulated entry for each action of the rule, when the rule's conditions
\* match the test payload, and conditions_not_met when they do not
C29_TestRuleReportsTheMatch ==
    call.op = "test_rule" =>
        IF _evaluate_conditions(call.rule, call.payload)
        THEN /\ call.result = "success"
             /\ call.conditions_match
             /\ Len(call.actions_to_execute) = Len(call.rule.actions)
        ELSE call.result = "conditions_not_met"
====
